---------------------------- MODULE Spec2Model ----------------------------
(***************************************************************************)
(* A model of google/adk/cli/cli_client.py: the ApiClient (connection      *)
(* scope, one-shot requests, the SSE streaming decoder) and the click      *)
(* commands built on it (one-shot commands, `agent run`, `agent chat`).    *)
(*                                                                         *)
(* Text is a sequence of one-character strings, so that concatenation,     *)
(* prefixes and fragment boundaries are real.  JSON values are tagged      *)
(* records, one shape per nesting level of an Event.                       *)
(***************************************************************************)
EXTENDS Integers, Sequences, FiniteSets, TLC

\* ------------------------------------------------------------------ bounds
MaxLines == 3       \* lines one response body yields before it must end
MaxExchanges == 2   \* inputs the chat loop reads in one run
MaxEvents == 2      \* events in the array a non-streaming /run returns

\* ------------------------------------------------------- JSON value shapes
\* A part of content.parts.
\*   "text"     {"text": s}            (s may be the empty string)
\*   "notext"   a dict without "text"  (a function call, inline data, ...)
\*   "nulltext" {"text": null}
\*   "numtext"  {"text": 5}            (truthy, not a string)
\*   "nondict"  a part that is no JSON object (a number, a string)
Part(k, s) == [k |-> k, s |-> s]
PText(s) == Part("text", s)
PNoText == Part("notext", <<>>)
PNullText == Part("nulltext", <<>>)
PNumText == Part("numtext", <<>>)
PNonDict == Part("nondict", <<>>)

\* The "content" of an event.
\*   "absent"   no "content" key
\*   "falsy"    null or {}
\*   "nondict"  a truthy value that is no object ("x")
\*   "noparts"  an object without "parts" ({"role": "model"})
\*   "emptyparts" "parts": [] or null
\*   "badparts" "parts": 5 (truthy, not iterable)
\*   "parts"    "parts": [p1, ...]
Content(k, parts) == [k |-> k, parts |-> parts]
CAbsent == Content("absent", <<>>)
CFalsy == Content("falsy", <<>>)
CNonDict == Content("nondict", <<>>)
CNoParts == Content("noparts", <<>>)
CEmptyParts == Content("emptyparts", <<>>)
CBadParts == Content("badparts", <<>>)
CParts(parts) == Content("parts", parts)

\* What follows "data: " on a line.
\*   "empty"    nothing
\*   "invalid"  text json.loads rejects ({not json)
\*   "nondict"  valid JSON that is no object (5, [1], "x", null)
\*   "obj"      a JSON object, with an optional author and content
Payload(k, author, content) == [k |-> k, author |-> author, content |-> content]
NoAuthor == "<absent>"
JEmpty == Payload("empty", NoAuthor, CAbsent)
JInvalid == Payload("invalid", NoAuthor, CAbsent)
JNonDict == Payload("nondict", NoAuthor, CAbsent)
JObj(author, content) == Payload("obj", author, content)

\* A line of the response body, as bytes: optional surrounding whitespace
\* (the "\n" that ends it included), a head and a payload.
\*   head "data: " | "data:" | "event: " | "" (a blank line) | "\xff" (bytes
\*   that are not UTF-8)
Line(ws, head, payload) == [ws |-> ws, head |-> head, payload |-> payload]

BadUtf8 == "\\xff"

\* ----------------------------------------------- the streaming decoder
\* line.decode('utf-8').strip(): the surrounding whitespace goes, and with it
\* the space that ends "data: " when nothing follows it.
StripLine(line) ==
    [head |-> IF line.head = "data: " /\ line.payload.k = "empty"
              THEN "data:" ELSE line.head,
     payload |-> line.payload]

\* line_str.startswith('data: ')
StartsWithData(ls) == ls.head = "data: "

\* json.loads(event_data): the parsed value, or JSONDecodeError.
JsonLoads(payload) ==
    IF payload.k \in {"invalid", "empty"}
    THEN [ok |-> FALSE, v |-> payload]
    ELSE [ok |-> TRUE, v |-> payload]

\* The decoder's state inside one call: Accumulated Output, the terminal
\* writes of the call, and the exception that left the loop ("none": none).
DecState(result, writes, raised) ==
    [result |-> result, writes |-> writes, raised |-> raised]

\* Mutant of AppendText: `result = part['text']` for `result += part['text']`.
AppendText_Overwrite(result, s) == s

\* result += part['text']
AppendText(result, s) == result \o s

\* Mutant of PrintText: print() without end='', which adds a newline.
PrintText_Newline(writes, s) == Append(writes, s \o <<"\n">>)

\* print(part['text'], end='', flush=True)
PrintText(writes, s) == Append(writes, s)

\* part.get('text') is truthy
TextTruthy(p) == (p.k = "text" /\ p.s # <<>>) \/ p.k = "numtext"

\* for part in event['content']['parts']: ...
RECURSIVE ForParts(_, _)
ForParts(parts, st) ==
    IF parts = <<>> THEN st
    ELSE LET p == Head(parts) IN
         IF p.k = "nondict"
         THEN DecState(st.result, st.writes, "AttributeError")
         ELSE IF ~TextTruthy(p) THEN ForParts(Tail(parts), st)
         ELSE IF p.k = "numtext"
         THEN DecState(st.result, st.writes, "TypeError")
         ELSE ForParts(Tail(parts),
                       DecState(AppendText(st.result, p.s),
                                PrintText(st.writes, p.s), "none"))

\* if event.get('content') and event['content'].get('parts'): for part ...
HandleEvent(event, st) ==
    IF event.k # "obj"
    THEN DecState(st.result, st.writes, "AttributeError")
    ELSE IF event.content.k \in {"absent", "falsy"} THEN st
    ELSE IF event.content.k = "nondict"
    THEN DecState(st.result, st.writes, "AttributeError")
    ELSE IF event.content.k \in {"noparts", "emptyparts"} THEN st
    ELSE IF event.content.k = "badparts"
    THEN DecState(st.result, st.writes, "TypeError")
    ELSE ForParts(event.content.parts, st)

\* The body of `async for line in response.content`, for one line.
ProcessLine(line, st) ==
    IF line.head = BadUtf8
    THEN DecState(st.result, st.writes, "UnicodeDecodeError")
    ELSE LET ls == StripLine(line) IN
         IF ~StartsWithData(ls) THEN st
         ELSE IF ls.payload.k = "empty" THEN st
         ELSE LET j == JsonLoads(ls.payload) IN
              IF ~j.ok THEN st
              ELSE HandleEvent(j.v, st)

\* run_agent_streaming's loop over a whole body: the state after the last
\* line, or after the line that raised.
RECURSIVE DecodeAll(_, _)
DecodeAll(ls, st) ==
    IF ls = <<>> \/ st.raised # "none" THEN st
    ELSE DecodeAll(Tail(ls), ProcessLine(Head(ls), st))

\* ----------------------------------------- what the server may send
\* Event-shaped objects: {author?, content?: {parts: [{text?}, ...]}}.
EvHel == JObj("bot", CParts(<<PText(<<"a">>)>>))
EvTwo == JObj(NoAuthor, CParts(<<PText(<<"b">>), PText(<<>>), PNoText,
                                 PText(<<"c", "a">>)>>))
EvNoContent == JObj("agent", CAbsent)
EvNullContent == JObj("bot", CFalsy)
EvNoParts == JObj("agent", CNoParts)
EvEmptyParts == JObj(NoAuthor, CEmptyParts)
EvNoText == JObj("bot", CParts(<<PNoText, PNullText, PText(<<>>)>>))
EventSet == {EvHel, EvTwo, EvNoContent, EvNullContent, EvNoParts,
             EvEmptyParts, EvNoText}

\* The events the stream of this model carries.
StreamEvents == {EvHel, EvTwo, EvNoContent, EvNoParts}

\* Valid JSON objects that are not Event-shaped.
EvBadContent == JObj("agent", CNonDict)
EvBadPart == JObj("agent", CParts(<<PText(<<"b">>), PNonDict, PText(<<"c">>)>>))
EvNumText == JObj("agent", CParts(<<PNumText>>))

LineSet ==
    {Line(TRUE, "", JEmpty),              \* a blank keep-alive line
     Line(TRUE, "event: ", JEmpty),       \* another SSE field
     Line(TRUE, "data: ", JEmpty),        \* "data: " and nothing
     Line(TRUE, "data: ", JInvalid),      \* data: {not json
     Line(TRUE, "data:", EvHel),          \* no space after the colon
     Line(TRUE, "data: ", JNonDict),      \* data: 5
     Line(TRUE, BadUtf8, JEmpty),
     Line(TRUE, "data: ", EvBadContent),
     Line(TRUE, "data: ", EvBadPart),
     Line(TRUE, "data: ", EvNumText)}
    \cup {Line(TRUE, "data: ", e) : e \in StreamEvents}

\* ------------------------------------------------- responses and errors
\* An exception: its class, and for the HTTP error the status and the body
\* text its message f"HTTP {status}: {error_text}" carries.
Err(kind, status, text) == [kind |-> kind, status |-> status, text |-> text]
NoErr == Err("none", 0, "")

\* A response: status, content type, and its body
\*   "events"  a JSON array of events       "obj"  a JSON object with an id
\*   "badjson" bytes response.json() rejects "text" plain text
Body(k, text, events) == [k |-> k, text |-> text, events |-> events]
Response(status, ctype, body) == [status |-> status, ctype |-> ctype, body |-> body]

NoResponse == Response(0, "", Body("none", "", <<>>))

RECURSIVE SeqsUpTo(_, _)
SeqsUpTo(S, n) ==
    IF n = 0 THEN {<<>>}
    ELSE LET shorter == SeqsUpTo(S, n - 1) IN
         shorter \cup {Append(q, x) : q \in shorter, x \in S}

EventArrays == SeqsUpTo(EventSet, MaxEvents)

ErrorBodies == {"session not found", " boom\n", ""}

OkResponses ==
    {Response(200, "application/json", Body("events", "", a)) : a \in EventArrays}
    \cup {Response(200, "application/json", Body("obj", "", <<>>)),
          Response(200, "application/json", Body("badjson", "{not json", <<>>)),
          Response(200, "text/plain", Body("text", "pong", <<>>))}

ErrorResponses ==
    {Response(st, "text/plain", Body("text", t, <<>>)) :
        st \in {400, 404, 500}, t \in ErrorBodies}

\* What a client call returned: nothing yet, the decoder's text, or the value
\* of _request (the parsed JSON, or {"text": body}).
Ret(k, text, body) == [k |-> k, text |-> text, body |-> body]
NoRet == Ret("none", <<>>, Body("none", "", <<>>))

\* Mutant of Request: `response.status > 400` for `>= 400`.
Request_StrictlyAbove(resp) ==
    IF resp.status > 400
    THEN [ret |-> NoRet, err |-> Err("ClickException", resp.status, resp.body.text)]
    ELSE IF resp.ctype = "application/json"
    THEN IF resp.body.k = "badjson"
         THEN [ret |-> NoRet, err |-> Err("JSONDecodeError", 0, "")]
         ELSE [ret |-> Ret("json", <<>>, resp.body), err |-> NoErr]
    ELSE [ret |-> Ret("json", <<>>, Body("wrapped", resp.body.text, <<>>)),
          err |-> NoErr]

\* ApiClient._request, from the response on: the value returned or the
\* exception raised.
Request(resp) ==
    IF resp.status >= 400
    THEN [ret |-> NoRet, err |-> Err("ClickException", resp.status, resp.body.text)]
    ELSE IF resp.ctype = "application/json"
    THEN IF resp.body.k = "badjson"
         THEN [ret |-> NoRet, err |-> Err("JSONDecodeError", 0, "")]
         ELSE [ret |-> Ret("json", <<>>, resp.body), err |-> NoErr]
    ELSE [ret |-> Ret("json", <<>>, Body("wrapped", resp.body.text, <<>>)),
          err |-> NoErr]

\* run_agent_streaming, from the response to the first line: the HTTP error,
\* or none and the loop starts.
StreamOpen(resp) ==
    IF resp.status >= 400
    THEN Err("ClickException", resp.status, resp.body.text)
    ELSE NoErr

\* ------------------------------------------------ rendering of events
\* One click.echo of a command.
\*   "event"  f"[{author}]: {text}"      "user"  f"[{user_id}]: {message}"
\*   "prefix" "[agent]: " with no newline  "nl"  an empty line
\*   "exiting" "\nExiting chat..."       "error" f"Error: {e}"
Out(k, author, text) == [k |-> k, author |-> author, text |-> text]

\* text_parts of one event: the texts of the parts whose text is truthy
RECURSIVE TextParts(_)
TextParts(parts) ==
    IF parts = <<>> THEN <<>>
    ELSE IF TextTruthy(Head(parts))
         THEN <<Head(parts).s>> \o TextParts(Tail(parts))
         ELSE TextParts(Tail(parts))

\* ''.join(text_parts)
RECURSIVE Join(_)
Join(frags) == IF frags = <<>> THEN <<>> ELSE Head(frags) \o Join(Tail(frags))

\* Mutant of AuthorOf: event.get('author'), with no default.
AuthorOf_NoDefault(event) == event.author

\* event.get('author', 'agent')
AuthorOf(event) == IF event.author = NoAuthor THEN "agent" ELSE event.author

\* The echo of one event of the array: a line, or nothing.
EchoEvent(event) ==
    IF event.content.k = "parts" /\ TextParts(event.content.parts) # <<>>
    THEN <<Out("event", AuthorOf(event), Join(TextParts(event.content.parts)))>>
    ELSE <<>>

\* for event in events: ... click.echo(f"[{author}]: {''.join(text_parts)}")
RECURSIVE EchoEvents(_)
EchoEvents(events) ==
    IF events = <<>> THEN <<>>
    ELSE EchoEvent(Head(events)) \o EchoEvents(Tail(events))

\* The rendering loop over what run_agent returned.  A JSON array of events is
\* rendered; a dict (a JSON object, or the {"text": ...} wrapper) iterates
\* as its keys, and a key has no .get.
Render(ret) ==
    IF ret.body.k = "events"
    THEN [echoed |-> EchoEvents(ret.body.events), raised |-> "none"]
    ELSE [echoed |-> <<>>, raised |-> "AttributeError"]

\* ------------------------------------------------------- chat input
\* What input() may return, as typed.
Inputs ==
    {<<>>, <<" ">>, <<"e", "x", "i", "t">>, <<" ", "E", "x", "I", "T", " ">>,
     <<"h", "i">>, <<"e", "x", "i", "t", "s">>}

\* str.strip()
RECURSIVE LStrip(_)
LStrip(m) == IF m # <<>> /\ Head(m) = " " THEN LStrip(Tail(m)) ELSE m
RECURSIVE RStrip(_)
RStrip(m) ==
    IF m # <<>> /\ m[Len(m)] = " " THEN RStrip(SubSeq(m, 1, Len(m) - 1)) ELSE m
Strip(m) == RStrip(LStrip(m))

\* str.lower()
LowerChar(c) ==
    CASE c = "E" -> "e" [] c = "X" -> "x" [] c = "I" -> "i" [] c = "T" -> "t"
      [] c = "H" -> "h" [] c = "S" -> "s" [] OTHER -> c
Lower(m) == [i \in 1..Len(m) |-> LowerChar(m[i])]

\* Mutant of ReadInput: `message == 'exit'`, without .lower().
ReadInput_CaseSensitive(raw) ==
    LET message == Strip(raw) IN
    IF message = <<>> THEN "skip"
    ELSE IF message = <<"e", "x", "i", "t">> THEN "exit"
    ELSE "send"

\* The chat loop's reading of one input: "skip" (continue), "exit" (break) or
\* "send".
ReadInput(raw) ==
    LET message == Strip(raw) IN
    IF message = <<>> THEN "skip"
    ELSE IF Lower(message) = <<"e", "x", "i", "t">> THEN "exit"
    ELSE "send"

\* ------------------------------------------------------------- state
VARIABLES
    cmd,          \* the command run: its coroutine is the process modelled
    streaming,    \* the --streaming flag (run, chat)
    pc,           \* "start" | "entered" | "prompt" | "awaitResponse" |
                  \* "streaming" | "done"
    session,      \* ApiClient.session: "none" | "open" | "closed"
    closes,       \* calls of session.close()
    requests,     \* requests issued on the session
    inflight,     \* requests issued whose exchange has not ended
    call,         \* the client call in progress: "none" | "request" | "stream"
    lines,        \* the lines response.content has yielded since the last input
    result,       \* Accumulated Output: the local of run_agent_streaming,
                  \* with what the last call left in it until the next one
    writes,       \* the print()s since the last input, one fragment each
    response,     \* the response this call received
    ret,          \* what the last client call returned
    err,          \* the exception a client call or a step of the command
                  \* raised since the last input
    echoed,       \* the click.echo()s since the last input (or the start)
    exit,         \* the exit code; -1 while the command runs
    message,      \* the exception reported when the command ended
    exchanges,    \* inputs the chat loop has read
    prompts,      \* times the chat prompt was shown
    lastInput,    \* the last input, as typed
    reqThisInput, \* requests issued since the last input was read
    cancelPending,\* the main task is marked for cancellation
    interrupted   \* an interrupt signal has arrived

vars == <<cmd, streaming, pc, session, closes, requests, inflight, call, lines,
          result, writes, response, ret, err, echoed, exit, message, exchanges, prompts,
          lastInput, reqThisInput, cancelPending, interrupted>>

Commands == {"list_apps", "create_session", "upload_artifact", "run", "chat"}

Init ==
    /\ cmd \in Commands
    /\ streaming \in (IF cmd \in {"run", "chat"} THEN BOOLEAN ELSE {FALSE})
    /\ pc = "start"
    /\ session = "none"
    /\ closes = 0
    /\ requests = 0
    /\ inflight = 0
    /\ call = "none"
    /\ lines = <<>>
    /\ result = <<>>
    /\ writes = <<>>
    /\ response = NoResponse
    /\ ret = NoRet
    /\ err = NoErr
    /\ echoed = <<>>
    /\ exit = -1
    /\ message = NoErr
    /\ exchanges = 0
    /\ prompts = 0
    /\ lastInput = <<>>
    /\ reqThisInput = 0
    /\ cancelPending = FALSE
    /\ interrupted = FALSE

\* Mutant of AExit: the session is left open.
AExit_Leak(s) == s

\* ApiClient.__aexit__: if self.session: await self.session.close()
AExit(s) == IF s # "none" THEN "closed" ELSE s

\* The exit code click gives the command: 0 when the callback returns, 1 for a
\* ClickException (shown as "Error: ..."), for any other exception (a
\* traceback) and for KeyboardInterrupt ("Aborted!").
ExitCode(e) == IF e.kind = "none" THEN 0 ELSE 1

\* The command ends: the `async with` block is left (normally or by the
\* exception e), __aexit__ runs, asyncio.run returns or raises.
Finish(e) ==
    /\ session' = AExit(session)
    /\ closes' = IF session # "none" THEN closes + 1 ELSE closes
    /\ pc' = "done"
    /\ exit' = ExitCode(e)
    /\ message' = e
    /\ call' = "none"
    /\ UNCHANGED prompts

\* Mutant of IsException: `except click.ClickException` for `except Exception`.
IsException_ClickOnly(e) == e.kind = "ClickException"

\* `except Exception` catches every exception but CancelledError and
\* KeyboardInterrupt, which derive from BaseException.
IsException(e) == e.kind \notin {"CancelledError", "KeyboardInterrupt"}

\* The chat loop after an exception its `except Exception` caught:
\* click.echo(f"Error: {e}") and the next iteration.
ChatCatch(e) ==
    /\ pc' = "prompt"
    /\ prompts' = prompts + 1
    /\ call' = "none"
    /\ UNCHANGED <<session, closes, exit, message>>

\* An exception e leaves a client call or a step of the command, which had
\* echoed `outs` before.
RaiseAfter(e, outs) ==
    /\ err' = e
    /\ inflight' = 0
    /\ IF cmd = "chat" /\ IsException(e)
       THEN /\ ChatCatch(e)
            /\ echoed' = echoed \o outs \o <<Out("error", e.kind, <<>>)>>
       ELSE /\ Finish(e)
            /\ echoed' = echoed \o outs

Raise(e) == RaiseAfter(e, <<>>)

\* ------------------------------------------------------------ actions
\* create_session: the state file is read before the client is created, and
\* open() or json.load() fails.
StateFileError ==
    /\ pc = "start" /\ cmd = "create_session"
    /\ \E k \in {"OSError", "JSONDecodeError"} :
          /\ err' = Err(k, 0, "")
          /\ Finish(Err(k, 0, ""))
    /\ UNCHANGED <<response, cmd, streaming, requests, inflight, lines, result, writes,
                   ret, echoed, exchanges, lastInput, reqThisInput,
                   cancelPending, interrupted>>

\* async with ApiClient(...) as client: __aenter__ opens the session.  The
\* chat command prints its banner and shows the first prompt.
Enter ==
    /\ pc = "start"
    /\ session' = "open"
    /\ pc' = IF cmd = "chat" THEN "prompt" ELSE "entered"
    /\ prompts' = IF cmd = "chat" THEN prompts + 1 ELSE prompts
    /\ UNCHANGED <<response, cmd, streaming, closes, requests, inflight, call, lines,
                   result, writes, ret, err, echoed, exit, message, exchanges,
                   lastInput, reqThisInput, cancelPending, interrupted>>

\* upload_artifact: open(file_path, 'rb') fails, before any request.
UploadOpenError ==
    /\ pc = "entered" /\ cmd = "upload_artifact"
    /\ Raise(Err("OSError", 0, ""))
    /\ UNCHANGED <<response, cmd, streaming, requests, lines, result, writes, ret,
                   exchanges, lastInput, reqThisInput, cancelPending,
                   interrupted>>

\* The client call a command makes: session.request(...) or session.post(...).
\* The coroutine is suspended until the response arrives.
IssueRequest(kind) ==
    /\ requests' = requests + 1
    /\ inflight' = inflight + 1
    /\ call' = kind
    /\ pc' = "awaitResponse"

CallKind == IF cmd \in {"run", "chat"} /\ streaming THEN "stream" ELSE "request"

\* A one-shot command, or `agent run`, makes its call.
SendRequest ==
    /\ pc = "entered"
    /\ IssueRequest(CallKind)
    /\ reqThisInput' = reqThisInput + 1
    /\ echoed' = IF cmd = "run" /\ streaming
                 THEN echoed \o <<Out("user", "user", <<>>), Out("prefix", "agent", <<>>)>>
                 ELSE echoed
    /\ UNCHANGED <<response, cmd, streaming, session, closes, lines, result, writes, ret,
                   err, exit, message, exchanges, prompts, lastInput,
                   cancelPending, interrupted>>

\* The connection cannot be made, or breaks before the response.
ConnectionError ==
    /\ pc = "awaitResponse" /\ ~cancelPending
    /\ Raise(Err("ClientError", 0, ""))
    /\ UNCHANGED <<response, cmd, streaming, requests, lines, result, writes, ret,
                   exchanges, lastInput, reqThisInput, cancelPending,
                   interrupted>>

\* The command after a one-shot call returned `r`: what it echoes, or the
\* exception its rendering raises.
AfterRequest(r) ==
    IF cmd \in {"run", "chat"}
    THEN LET rendered == Render(r) IN
         [echoed |-> (IF cmd = "run" THEN <<Out("user", "user", <<>>)>> ELSE <<>>)
                     \o rendered.echoed,
          raised |-> rendered.raised]
    ELSE IF cmd = "list_apps" \/ r.body.k = "obj"
    THEN [echoed |-> <<Out("result", "", <<>>)>>, raised |-> "none"]
    ELSE [echoed |-> <<>>, raised |-> "KeyError"]

\* The command goes on after a client call returned: the chat loop echoes
\* an empty line and prompts again, any other command ends.
Continue ==
    /\ inflight' = 0
    /\ IF cmd = "chat"
       THEN /\ pc' = "prompt"
            /\ prompts' = prompts + 1
            /\ call' = "none"
            /\ UNCHANGED <<session, closes, exit, message>>
       ELSE Finish(NoErr)

\* The response to a one-shot call arrives: _request returns or raises, and
\* the command renders what it returned.
RequestResponds ==
    /\ pc = "awaitResponse" /\ call = "request" /\ ~cancelPending
    /\ \E resp \in OkResponses \cup ErrorResponses :
          LET r == Request(resp) IN
          /\ response' = resp
          /\ IF r.err # NoErr
             THEN /\ Raise(r.err)
                  /\ ret' = NoRet
             ELSE LET after == AfterRequest(r.ret) IN
                  /\ ret' = r.ret
                  /\ IF after.raised # "none"
                     THEN RaiseAfter(Err(after.raised, 0, ""), after.echoed)
                     ELSE /\ Continue
                          /\ err' = NoErr
                          /\ echoed' = echoed \o after.echoed
                                       \o (IF cmd = "chat" THEN <<Out("nl", "", <<>>)>>
                                           ELSE <<>>)
    /\ UNCHANGED <<cmd, streaming, requests, lines, result, writes, exchanges,
                   lastInput, reqThisInput, cancelPending, interrupted>>

\* The response to the stream-initiating POST arrives: the HTTP error is
\* raised, or result = "" and the loop over the lines starts.
StreamResponds ==
    /\ pc = "awaitResponse" /\ call = "stream" /\ ~cancelPending
    /\ \E resp \in ErrorResponses
                   \cup {Response(200, "text/event-stream", Body("text", "", <<>>))} :
          LET e == StreamOpen(resp) IN
          /\ response' = resp
          /\ IF e # NoErr
             THEN /\ Raise(e)
                  /\ UNCHANGED result
             ELSE /\ pc' = "streaming"
                  /\ result' = <<>>
                  /\ err' = NoErr
                  /\ UNCHANGED <<session, closes, inflight, call, echoed, exit,
                                 message, prompts>>
    /\ UNCHANGED <<lines, writes>>
    /\ ret' = NoRet
    /\ UNCHANGED <<cmd, streaming, requests, exchanges, lastInput,
                   reqThisInput, cancelPending, interrupted>>

\* response.content yields a line, and the loop body runs on it.
NextLine ==
    /\ pc = "streaming" /\ ~cancelPending
    /\ Len(lines) < MaxLines
    /\ \E l \in LineSet :
          LET st == ProcessLine(l, DecState(result, writes, "none")) IN
          /\ lines' = Append(lines, l)
          /\ result' = st.result
          /\ writes' = st.writes
          /\ IF st.raised # "none"
             THEN Raise(Err(st.raised, 0, ""))
             ELSE UNCHANGED <<pc, session, closes, inflight, call, err, echoed,
                              exit, message, prompts>>
    /\ UNCHANGED <<response, cmd, streaming, requests, ret, exchanges, lastInput,
                   reqThisInput, cancelPending, interrupted>>

\* response.content is exhausted: return result.  The command echoes the
\* newline that ends the streamed text and goes on.
EndOfStream ==
    /\ pc = "streaming" /\ ~cancelPending
    /\ ret' = Ret("text", result, Body("none", "", <<>>))
    /\ Continue
    /\ echoed' = echoed \o <<Out("nl", "", <<>>)>>
                 \o (IF cmd = "chat" THEN <<Out("nl", "", <<>>)>> ELSE <<>>)
    /\ UNCHANGED <<response, cmd, streaming, requests, lines, result, writes, err,
                   exchanges, lastInput, reqThisInput, cancelPending,
                   interrupted>>

\* Mutant of StreamTransportError: the failure is swallowed and the text
\* accumulated so far is returned.
StreamTransportError_ReturnsPartial ==
    /\ pc = "streaming" /\ ~cancelPending
    /\ err' = Err("ClientError", 0, "")
    /\ ret' = Ret("text", result, Body("none", "", <<>>))
    /\ Continue
    /\ UNCHANGED <<response, cmd, streaming, requests, lines, result, writes,
                   echoed, exchanges, lastInput, reqThisInput, cancelPending,
                   interrupted>>

\* The connection drops while the loop waits for the next line.
StreamTransportError ==
    /\ pc = "streaming" /\ ~cancelPending
    /\ Raise(Err("ClientError", 0, ""))
    /\ UNCHANGED <<response, cmd, streaming, requests, lines, result, writes, ret,
                   exchanges, lastInput, reqThisInput, cancelPending,
                   interrupted>>

\* How the command ends once the chat loop is left by `break`: it returns,
\* unless its task is marked for cancellation, and then asyncio.run raises
\* KeyboardInterrupt as it does for a task cancelled while suspended.
LeftLoop == IF cancelPending THEN Err("CancelledError", 0, "") ELSE NoErr

\* input() returns what the user typed: the loop skips it, breaks, or makes
\* the exchange's call.
ChatInput ==
    /\ pc = "prompt" /\ exchanges < MaxExchanges
    /\ \E raw \in Inputs :
          /\ lastInput' = raw
          /\ CASE ReadInput(raw) = "skip" ->
                    /\ prompts' = prompts + 1
                    /\ reqThisInput' = 0
                    /\ echoed' = <<>>
                    /\ UNCHANGED <<pc, session, closes, requests, inflight,
                                   call, exit, message>>
               [] ReadInput(raw) = "exit" ->
                    /\ Finish(LeftLoop)
                    /\ reqThisInput' = 0
                    /\ echoed' = <<>>
                    /\ UNCHANGED <<requests, inflight>>
               [] OTHER ->
                    /\ IssueRequest(CallKind)
                    /\ reqThisInput' = 1
                    /\ echoed' = IF streaming THEN <<Out("prefix", "agent", <<>>)>>
                                 ELSE <<>>
                    /\ UNCHANGED <<session, closes, exit, message, prompts>>
    /\ exchanges' = exchanges + 1
    /\ err' = NoErr
    /\ ret' = NoRet
    /\ response' = NoResponse
    /\ lines' = <<>>
    /\ writes' = <<>>
    /\ UNCHANGED <<cmd, streaming, result, cancelPending, interrupted>>

\* input() meets the end of stdin: EOFError, caught by `except Exception`.
ChatEOF ==
    /\ pc = "prompt" /\ exchanges < MaxExchanges
    /\ exchanges' = exchanges + 1
    /\ lastInput' = <<>>
    /\ reqThisInput' = 0
    /\ err' = Err("EOFError", 0, "")
    /\ echoed' = <<Out("error", "EOFError", <<>>)>>
    /\ ChatCatch(Err("EOFError", 0, ""))
    /\ ret' = NoRet
    /\ response' = NoResponse
    /\ lines' = <<>>
    /\ writes' = <<>>
    /\ UNCHANGED <<cmd, streaming, requests, inflight, result, cancelPending,
                   interrupted>>

\* ---------------------------------------------------------- interrupts
\* asyncio.run(_chat()) decides what SIGINT does.  Where the runtime leaves
\* Python's default handler in place (before 3.11), or on a second SIGINT,
\* KeyboardInterrupt is raised inside the blocking input(): the loop's
\* `except KeyboardInterrupt` echoes "\nExiting chat..." and breaks.
InterruptAtPrompt ==
    /\ pc = "prompt"
    /\ interrupted' = TRUE
    /\ echoed' = Append(echoed, Out("exiting", "", <<>>))
    /\ inflight' = 0
    /\ Finish(LeftLoop)
    /\ UNCHANGED <<response, cmd, streaming, requests, lines, result, writes,
                   ret, err, exchanges, lastInput, reqThisInput, cancelPending>>

\* From 3.11 on asyncio.run installs its own SIGINT handler: the first SIGINT
\* only marks the main task for cancellation and returns, input() goes on
\* waiting, and CancelledError is thrown at the task's next suspension.
InterruptDeferred ==
    /\ pc = "prompt" /\ ~cancelPending
    /\ cancelPending' = TRUE
    /\ interrupted' = TRUE
    /\ UNCHANGED <<response, cmd, streaming, pc, session, closes, requests, inflight,
                   call, lines, result, writes, ret, err, echoed, exit,
                   message, exchanges, prompts, lastInput, reqThisInput>>

\* The task is cancelled while suspended in a client call (an interrupt that
\* arrives then, or the pending cancellation of an earlier one):
\* CancelledError leaves the call, passes `except Exception`, leaves the
\* `async with`, and asyncio.run raises KeyboardInterrupt.
Cancelled ==
    /\ pc \in {"awaitResponse", "streaming"}
    /\ interrupted' = TRUE
    /\ cancelPending' = FALSE
    /\ Raise(Err("CancelledError", 0, ""))
    /\ UNCHANGED <<response, cmd, streaming, requests, lines, result, writes, ret,
                   exchanges, lastInput, reqThisInput>>

Next ==
    \/ StateFileError
    \/ Enter
    \/ UploadOpenError
    \/ SendRequest
    \/ ConnectionError
    \/ RequestResponds
    \/ StreamResponds
    \/ NextLine
    \/ EndOfStream
    \/ StreamTransportError
    \/ ChatInput
    \/ ChatEOF
    \/ InterruptAtPrompt
    \/ InterruptDeferred
    \/ Cancelled

Spec == Init /\ [][Next]_vars

\* ===================================================================
\* The client used directly
\* A caller that holds one ApiClient and calls __aenter__, its operations
\* and __aexit__ one after the other, in any order, each call awaited before
\* the next.  No command runs: cmd is "none" and pc is the caller's
\* position, "idle" between two calls and "streaming" inside the loop of
\* run_agent_streaming.  call, ret and err are the last operation called and
\* how it ended.
MaxCalls == 2
MaxScopes == 2

\* raise RuntimeError("Client not initialized. Use async context manager.")
NotInitialized ==
    Err("RuntimeError", 0, "Client not initialized. Use async context manager.")

\* What a closed aiohttp.ClientSession answers to request() and post(): it
\* raises before anything is sent.
SessionClosed == Err("RuntimeError", 0, "Session is closed")

\* self.session.post when self.session is None.
NoneHasNoPost ==
    Err("AttributeError", 0, "'NoneType' object has no attribute 'post'")

\* The head of _request, up to the call of self.session.request: the error
\* raised before a request is made, or none.  __aexit__ leaves the closed
\* session in self.session, and a ClientSession is truthy.
RequestGuard(s) ==
    IF s = "none" THEN NotInitialized
    ELSE IF s = "closed" THEN SessionClosed
    ELSE NoErr

\* The head of run_agent_streaming, up to the call of self.session.post: no
\* test of self.session is made.
StreamingGuard(s) ==
    IF s = "none" THEN NoneHasNoPost
    ELSE IF s = "closed" THEN SessionClosed
    ELSE NoErr

InitApi ==
    /\ cmd = "none"
    /\ streaming = FALSE
    /\ pc = "idle"
    /\ session = "none"
    /\ closes = 0
    /\ requests = 0
    /\ inflight = 0
    /\ call = "none"
    /\ lines = <<>>
    /\ result = <<>>
    /\ writes = <<>>
    /\ response = NoResponse
    /\ ret = NoRet
    /\ err = NoErr
    /\ echoed = <<>>
    /\ exit = -1
    /\ message = NoErr
    /\ exchanges = 0
    /\ prompts = 0
    /\ lastInput = <<>>
    /\ reqThisInput = 0
    /\ cancelPending = FALSE
    /\ interrupted = FALSE

\* What no call on the client touches.
ApiUntouched ==
    UNCHANGED <<cmd, streaming, echoed, exit, message, exchanges, prompts,
                lastInput, reqThisInput, cancelPending, interrupted>>

\* await client.__aenter__(): a new session, whatever self.session held.
ApiEnter ==
    /\ pc = "idle"
    /\ session' = "open"
    /\ UNCHANGED <<pc, closes, requests, inflight, call, lines, result, writes,
                   response, ret, err>>
    /\ ApiUntouched

\* await client.__aexit__(...)
ApiExit ==
    /\ pc = "idle"
    /\ closes < MaxScopes
    /\ session' = AExit(session)
    /\ closes' = IF session # "none" THEN closes + 1 ELSE closes
    /\ UNCHANGED <<pc, requests, inflight, call, lines, result, writes,
                   response, ret, err>>
    /\ ApiUntouched

\* await of a one-shot operation (list_apps, create_session, run_agent, ...):
\* _request raises before the request, or makes it and returns or raises on
\* the response.
ApiRequest ==
    /\ pc = "idle"
    /\ requests < MaxCalls
    /\ call' = "request"
    /\ lines' = <<>>
    /\ writes' = <<>>
    /\ IF RequestGuard(session) # NoErr
       THEN /\ err' = RequestGuard(session)
            /\ ret' = NoRet
            /\ response' = NoResponse
            /\ UNCHANGED requests
       ELSE /\ requests' = requests + 1
            /\ \/ \E resp \in OkResponses \cup ErrorResponses :
                     /\ response' = resp
                     /\ ret' = Request(resp).ret
                     /\ err' = Request(resp).err
               \/ /\ response' = NoResponse
                  /\ ret' = NoRet
                  /\ err' = Err("ClientError", 0, "")
    /\ UNCHANGED <<pc, session, closes, inflight, result>>
    /\ ApiUntouched

\* run_agent_streaming is called: self.session.post raises, or the POST is
\* made and its response raises the HTTP error or opens the stream.
ApiStreaming ==
    /\ pc = "idle"
    /\ requests < MaxCalls
    /\ call' = "stream"
    /\ lines' = <<>>
    /\ writes' = <<>>
    /\ ret' = NoRet
    /\ IF StreamingGuard(session) # NoErr
       THEN /\ err' = StreamingGuard(session)
            /\ response' = NoResponse
            /\ UNCHANGED <<pc, requests, inflight, result>>
       ELSE /\ requests' = requests + 1
            /\ \E resp \in ErrorResponses
                   \cup {Response(200, "text/event-stream", Body("text", "", <<>>))} :
                  /\ response' = resp
                  /\ err' = StreamOpen(resp)
                  /\ IF StreamOpen(resp) # NoErr
                     THEN UNCHANGED <<pc, inflight, result>>
                     ELSE /\ pc' = "streaming"
                          /\ inflight' = 1
                          /\ result' = <<>>
    /\ UNCHANGED <<session, closes>>
    /\ ApiUntouched

\* response.content yields a line to the loop of run_agent_streaming.
ApiNextLine ==
    /\ pc = "streaming"
    /\ Len(lines) < MaxLines
    /\ \E l \in LineSet :
          LET st == ProcessLine(l, DecState(result, writes, "none")) IN
          /\ lines' = Append(lines, l)
          /\ result' = st.result
          /\ writes' = st.writes
          /\ IF st.raised # "none"
             THEN /\ err' = Err(st.raised, 0, "")
                  /\ pc' = "idle"
                  /\ inflight' = 0
             ELSE UNCHANGED <<pc, inflight, err>>
    /\ UNCHANGED <<session, closes, requests, call, response, ret>>
    /\ ApiUntouched

\* response.content is exhausted: run_agent_streaming returns result.
ApiEndOfStream ==
    /\ pc = "streaming"
    /\ ret' = Ret("text", result, Body("none", "", <<>>))
    /\ pc' = "idle"
    /\ inflight' = 0
    /\ UNCHANGED <<session, closes, requests, call, lines, result, writes,
                   response, err>>
    /\ ApiUntouched

\* The connection drops while run_agent_streaming waits for the next line.
ApiStreamTransportError ==
    /\ pc = "streaming"
    /\ err' = Err("ClientError", 0, "")
    /\ pc' = "idle"
    /\ inflight' = 0
    /\ UNCHANGED <<session, closes, requests, call, lines, result, writes,
                   response, ret>>
    /\ ApiUntouched

NextApi ==
    \/ ApiEnter
    \/ ApiExit
    \/ ApiRequest
    \/ ApiStreaming
    \/ ApiNextLine
    \/ ApiEndOfStream
    \/ ApiStreamTransportError

SpecApi == InitApi /\ [][NextApi]_vars

\* ===================================================================
\* Properties
\* ===================================================================

\* The last element of a non-empty sequence.
Last(q) == q[Len(q)]

\* The text values a line contributes according to the specification: the
\* non-empty `text` values in content.parts of a `data: ` frame whose payload
\* parses as an Event, in order; nothing for any other line.
FrameTexts(l) ==
    IF l.head = "data: " /\ l.payload.k = "obj" /\ l.payload.content.k = "parts"
    THEN LET ps == SelectSeq(l.payload.content.parts,
                             LAMBDA p : p.k = "text" /\ Len(p.s) > 0)
         IN [i \in 1..Len(ps) |-> ps[i].s]
    ELSE <<>>

\* The fragments of a sequence of lines, in stream order.
RECURSIVE ExpectedFragments(_)
ExpectedFragments(ls) ==
    IF ls = <<>> THEN <<>>
    ELSE ExpectedFragments(SubSeq(ls, 1, Len(ls) - 1)) \o FrameTexts(Last(ls))

\* The concatenation of a sequence of fragments, from the right.
RECURSIVE Concat(_)
Concat(frags) ==
    IF frags = <<>> THEN <<>>
    ELSE Concat(SubSeq(frags, 1, Len(frags) - 1)) \o Last(frags)

\* The decoder is between lines of a stream, or has returned its text.
AtAwaitOrReturn == pc = "streaming" \/ ret.k = "text"

\* C1: at every point where the decoder awaits the next line, Accumulated
\* Output is the ordered concatenation of the non-empty text values of the
\* parsed `data: ` frames among the lines read so far, and the value returned
\* at end-of-stream is that concatenation over the whole stream.
C1_AccumulatedIsConcatenation ==
    /\ pc = "streaming" => result = Concat(ExpectedFragments(lines))
    /\ ret.k = "text" => ret.text = Concat(ExpectedFragments(lines))

\* C1 witness: a stream of three lines, one of them invalid JSON, was decoded
\* to the end and returned the text of its two valid frames.
C1_Witness ==
    /\ ret.k = "text"
    /\ Len(lines) = 3
    /\ \E i \in 1..3 : lines[i].payload.k = "invalid"
    /\ ret.text = <<"a", "b", "c", "a">>

\* A line the specification says is skipped: blank, without the `data: `
\* prefix, with an empty payload, with a payload that is not valid JSON, or
\* with valid JSON that has no content, no content.parts, or is no Event
\* object at all.
Skippable(l) ==
    \/ l.head \in {"", "event: ", "data:"}
    \/ l.head = "data: " /\ l.payload.k \in {"empty", "invalid", "nondict"}
    \/ l.head = "data: " /\ l.payload.k = "obj"
       /\ l.payload.content.k \in {"absent", "falsy", "noparts", "emptyparts"}

\* The exceptions the loop body of the decoder can raise.
DecoderErrors == {"AttributeError", "TypeError", "UnicodeDecodeError"}

\* C2: a skippable line contributes nothing to Accumulated Output or the
\* terminal, raises nothing to the caller, and leaves the decoder reading
\* the lines that follow.
C2_SkippableLinesAreSkipped ==
    (streaming /\ lines # <<>> /\ Skippable(Last(lines)))
        => /\ err.kind \notin DecoderErrors
           /\ writes = ExpectedFragments(SubSeq(lines, 1, Len(lines) - 1))

\* C3: at every point where the decoder awaits the next line, and at return,
\* the terminal writes of the call are exactly the fragments appended to
\* Accumulated Output, one write per fragment, in order, and their
\* concatenation is Accumulated Output.
C3_WritesAreTheFragments ==
    AtAwaitOrReturn
        => /\ writes = ExpectedFragments(lines)
           /\ Concat(writes) = result

\* C3 witness: a call returned after three writes, two of them from the
\* parts of one frame.
C3_Witness ==
    /\ ret.k = "text"
    /\ writes = <<<<"a">>, <<"b">>, <<"c", "a">>>>
    /\ result = <<"a", "b", "c", "a">>

\* C4: a response with status >= 400, to a one-shot request or to the
\* stream-initiating POST, raises one HTTP error that carries the status and
\* the body text verbatim, before anything else: nothing is returned, no
\* stream line is read, nothing is written and the loop over the lines is not
\* entered.
C4_HttpErrorRaisedFirst ==
    response.status >= 400
        => /\ err = Err("ClickException", response.status, response.body.text)
           /\ ret = NoRet
           /\ lines = <<>>
           /\ writes = <<>>
           /\ pc # "streaming"

\* C4 witness: the stream-initiating request was answered 404 "session not
\* found" and the caller holds the error with both values.
C4_Witness ==
    /\ streaming
    /\ response.status = 404
    /\ err = Err("ClickException", 404, "session not found")

\* C5: the session is opened before the first request and closed after the
\* last, on every way out of the command (return, an exception of an
\* operation, cancellation by an interrupt): a command that has ended holds
\* no open session, and session.close() ran at most once.
C5_ScopeReleasedOnEveryPath ==
    /\ requests > 0 => session # "none"
    /\ inflight > 0 => session = "open"
    /\ session = "closed" => pc = "done" /\ inflight = 0
    /\ pc = "done" => session # "open"
    /\ pc = "done" /\ session = "none" => cmd = "create_session" /\ requests = 0
    /\ closes <= 1
    /\ closes = 1 <=> session = "closed"

\* C5 witness: a command interrupted in the middle of a stream has ended with
\* its session closed once.
C5_Witness ==
    /\ pc = "done"
    /\ err.kind = "CancelledError"
    /\ lines # <<>>
    /\ session = "closed"
    /\ closes = 1

\* The errors an operation surfaces: transport, HTTP status, decoding of a
\* one-shot body, local I/O.
OperationErrors == {"ClientError", "ClickException", "JSONDecodeError", "OSError"}

\* C6 as stated: in every command, chat included, an error surfaced by an
\* operation aborts the command with a non-zero exit and a message, and no
\* request follows it.
C6_EveryCommandAborts ==
    [][/\ err'.kind \in OperationErrors
            => pc' = "done" /\ exit' = 1 /\ message' = err'
       /\ err.kind \in OperationErrors => requests' = requests]_vars

\* C6 amended: in every command but chat an error surfaced by an operation
\* aborts the command with exit code 1 and the error as its message, and the
\* command has ended; in chat the error is echoed as "Error: ..." and the loop
\* goes on to the next prompt: the command is not aborted by the error (only
\* an interrupt ends it with a non-zero exit).
C6_AbortsExceptInChat ==
    /\ (cmd # "chat" /\ err.kind \in OperationErrors)
          => /\ pc = "done"
             /\ exit = 1
             /\ message = err
             /\ inflight = 0
    /\ (cmd = "chat" /\ err.kind \in OperationErrors)
          => /\ pc \in {"prompt", "done"}
             /\ message.kind \notin OperationErrors
             /\ exit = 1 => interrupted
             /\ \E i \in 1..Len(echoed) : echoed[i] = Out("error", err.kind, <<>>)

\* C6 witness: the chat loop is back at its prompt after an HTTP error.
C6_Witness ==
    /\ cmd = "chat"
    /\ pc = "prompt"
    /\ err.kind = "ClickException"
    /\ exit = -1

\* C7: when the transport fails in the middle of a stream, the failure leaves
\* the call as an error: nothing is returned, the request is not repeated,
\* and the writes made are exactly the fragments of the lines delivered
\* before the failure, then and for as long as the failure stands.
C7_MidStreamFailurePropagates ==
    (streaming /\ err.kind = "ClientError" /\ response.status = 200)
        => /\ ret = NoRet
           /\ writes = ExpectedFragments(lines)
           /\ Concat(writes) = result
           /\ reqThisInput = 1
           /\ inflight = 0
           /\ pc \in {"prompt", "done"}

\* C7 witness: the connection dropped after two lines, one of which had been
\* written to the terminal.
C7_Witness ==
    /\ streaming
    /\ err.kind = "ClientError"
    /\ response.status = 200
    /\ Len(lines) = 2
    /\ writes = <<<<"a">>>>

\* C8 as stated: once an interrupt has arrived in the chat loop no further
\* prompt is shown and no further request is issued, and every streaming call
\* starts from an empty Accumulated Output.
C8_InterruptEndsLoop ==
    [][/\ interrupted => prompts' = prompts /\ requests' = requests
       /\ (pc = "awaitResponse" /\ pc' = "streaming") => result' = <<>>]_vars

\* What the user typed, without the surrounding blanks.
Typed(raw) ==
    IF \A i \in 1..Len(raw) : raw[i] = " " THEN <<>>
    ELSE LET first == CHOOSE i \in 1..Len(raw) :
                         raw[i] # " " /\ \A j \in 1..(i - 1) : raw[j] = " "
             last == CHOOSE i \in 1..Len(raw) :
                         raw[i] # " " /\ \A j \in (i + 1)..Len(raw) : raw[j] = " "
         IN SubSeq(raw, first, last)

\* The word exit, in any letter case.
IsExitWord(m) ==
    /\ Len(m) = 4
    /\ m[1] \in {"e", "E"} /\ m[2] \in {"x", "X"}
    /\ m[3] \in {"i", "I"} /\ m[4] \in {"t", "T"}

HasText(e) ==
    /\ e.content.k = "parts"
    /\ \E i \in 1..Len(e.content.parts) :
          e.content.parts[i].k = "text" /\ Len(e.content.parts[i].s) > 0

\* The `data: ` frame that carries an event.
FrameOf(e) == Line(TRUE, "data: ", e)

\* The lines the specification expects for an array of events.
ExpectedLines(evs) ==
    LET keep == SelectSeq(evs, HasText) IN
    [i \in 1..Len(keep) |->
        Out("event",
            IF keep[i].author = NoAuthor THEN "agent" ELSE keep[i].author,
            Concat(FrameTexts(FrameOf(keep[i]))))]

\* C10: a non-streaming run renders one line per event that has a non-empty
\* text part, in event order, "[author]: text" with the event's text parts
\* concatenated and the author "agent" when the event names none, and no line
\* for any other event; the rendered texts concatenate to what the streaming
\* decoder returns for the same events sent as frames.
C10_OneLinePerTextEvent ==
    (cmd \in {"run", "chat"} /\ ~streaming /\ ret.k = "json"
     /\ ret.body.k = "events")
        => LET shown == SelectSeq(echoed, LAMBDA o : o.k = "event")
               evs == ret.body.events
               frames == [i \in 1..Len(evs) |-> FrameOf(evs[i])]
           IN /\ shown = ExpectedLines(evs)
              /\ Concat([i \in 1..Len(shown) |-> shown[i].text])
                    = DecodeAll(frames, DecState(<<>>, <<>>, "none")).result

\* C10 witness: `agent run` rendered an array of two events, the second
\* without an author and with two text parts, as two lines.
C10_Witness ==
    /\ cmd = "run" /\ ~streaming
    /\ pc = "done" /\ exit = 0
    /\ ret.body.events = <<EvHel, EvTwo>>
    /\ echoed = <<Out("user", "user", <<>>), Out("event", "bot", <<"a">>),
                  Out("event", "agent", <<"b", "c", "a">>)>>

\* C11: no ApiClient operation sends a request outside an open connection
\* scope.  For any sequence of enter / operation / exit calls on one client,
\* every operation invoked before the scope is entered, one-shot or
\* run_agent_streaming, fails with the RuntimeError "Client not initialized.
\* Use async context manager." and issues no request, and no request is
\* issued on the session after the scope has been exited.  self.session is
\* None exactly until the first __aenter__, so an operation was invoked before
\* the scope was entered exactly when call is set while session is "none".
C11_NoRequestOutsideScope ==
    [][ /\ (session' = "none" /\ call' # "none")
             => (err' = NotInitialized /\ requests' = 0)
        /\ session # "open" => requests' = requests ]_vars

====
